---- MODULE Spec2Model ----
(***************************************************************************)
(* osdump: export of an OpenSearch index to a file.                        *)
(*                                                                         *)
(* main() checks the document count, then runs three goroutines: the       *)
(* producer (pages through the index with search_after and sends every hit *)
(* to the Tasks channel), an anonymous goroutine that waits for the        *)
(* producer and closes the channel, and the consumer (creates the output   *)
(* file and writes every received record followed by a line feed).         *)
(* log.Fatal / log.Fatalf end the whole process at once (os.Exit(1)): no   *)
(* deferred function runs and no goroutine takes another step.             *)
(***************************************************************************)
EXTENDS Integers, Sequences, FiniteSets, TLC

\* ----------------------------------------------------------------- bounds
MaxDocs == 3        \* the index holds 0..MaxDocs documents
MaxSize == 2        \* -size (search window) is 1..MaxSize
MaxCap  == 2        \* capacity of the Tasks channel is 1..MaxCap
MaxBuf  == 2        \* bytes a writer buffers before it writes them through

\* The producer stops fetching once the counter has passed every value a
\* terminating run can produce (a service that never advances the cursor
\* would make it count forever).
CounterCap == MaxDocs + 1

\* ------------------------------------------------------ program constants
StatusOK == 200     \* http.StatusOK
NoCursor == 0       \* Context.After == "" : no search_after clause
LF       == 10      \* ln = []byte{10}

VARIABLES
    env,        \* the world outside the process: index, service, disk
    config,     \* Configuration: Size, Brotli
    capacity,   \* cap(tasksChan)
    ctx,        \* Context: Size, After, Counter
    Tasks,      \* buffered contents of the channel *ctx.Tasks
    closed,     \* number of close(*ctx.Tasks) calls executed
    closedWith, \* history: what the channel held when it was closed
    mpc,        \* main: "count", "spawn", "wait", "report", "done"
    ppc,        \* producer: "idle", "fetch", "send", "done"
    r,          \* producer: r, the records of the current page
    x,          \* producer: how many records of r have been sent
    clpc,       \* closing goroutine: "idle", "wait", "done"
    cpc,        \* consumer: "idle", "open", "range", "write", "return", "done"
    data,       \* consumer: the record received from the channel
    cdefer,     \* consumer: stack of deferred calls, top first
    wg,         \* the WaitGroup counters pwg (p) and cwg (c)
    sink,       \* output file and the writers stacked on it
    fatal,      \* "none", or the message the process died with
    requests,   \* history: every request sent, with the response received
    enqueued,   \* history: records sent to the channel, in order
    dequeued,   \* history: records received from the channel, in order
    count,      \* main: c, the pre-flight count (-1 before the query)
    reported    \* the counter printed by the final report (-1 before it)

vars == <<env, config, capacity, ctx, Tasks, closed, closedWith, mpc, ppc, r,
          x, clpc, cpc, data, cdefer, wg, sink, fatal, requests, enqueued,
          dequeued, count, reported>>

\* ------------------------------------------------------------ the service
\* The index: documents 1..N in ascending _id order.
Index == [i \in 1..env.N |-> i]

\* A hit as the service returns it: the document with its sort annotation
\* (0: the hit carries no sort annotation).
Hit(id) == [id |-> id, sort |-> IF id \in env.NoSort THEN 0 ELSE id]

\* the documents of s strictly after cursor a
RECURSIVE DocsAfter(_, _)
DocsAfter(s, a) ==
    IF s = <<>> THEN <<>>
    ELSE IF Head(s) > a THEN s ELSE DocsAfter(Tail(s), a)

Take(s, n) == SubSeq(s, 1, IF Len(s) < n THEN Len(s) ELSE n)

\* _search: the next at most q.size documents after q.search_after
SearchHits(q) ==
    LET from == IF q.search_after = <<>> THEN NoCursor ELSE q.search_after[1]
        docs == Take(DocsAfter(Index, from), q.size)
    IN  [i \in 1..Len(docs) |-> Hit(docs[i])]

GoodResponse(hits) ==
    [transport |-> TRUE, status |-> StatusOK, json |-> TRUE,
     hasHits |-> TRUE, hits |-> hits, hasCount |-> FALSE, count |-> 0]

CountResponse(c) ==
    [transport |-> TRUE, status |-> StatusOK, json |-> TRUE,
     hasHits |-> FALSE, hits |-> <<>>, hasCount |-> TRUE, count |-> c]

\* What a failing service may answer instead.
BadResponses ==
    { [GoodResponse(<<>>) EXCEPT !.transport = FALSE],
      [GoodResponse(<<>>) EXCEPT !.status = 500],
      [GoodResponse(<<>>) EXCEPT !.json = FALSE],
      [GoodResponse(<<>>) EXCEPT !.hasHits = FALSE] }

SearchResponses(q) ==
    {GoodResponse(SearchHits(q))} \cup (IF env.faulty THEN BadResponses ELSE {})

\* _count: the count is what the service says; it need not be the number of
\* documents the search will return.
CountResponses ==
    {CountResponse(c) : c \in {0, env.N - 1, env.N, env.N + 1} \cap Nat}
    \cup (IF env.faulty THEN BadResponses ELSE {})

\* ---------------------------------------------------------------- helpers
\* A template without the search_after clause.
BuildQuery_NoAfter(c) ==
    [size |-> c.Size, search_after |-> <<>>, sort |-> "_id asc"]

\* query_template executed on ctx
BuildQuery(c) ==
    [size |-> c.Size,
     search_after |-> IF c.After # NoCursor THEN <<c.After>> ELSE <<>>,
     sort |-> "_id asc"]

\* An http_get that returns the body whatever the status.
HttpGetFatal_AnyStatus(resp) ==
    IF ~resp.transport THEN "http: transport error" ELSE ""

\* http_get: "" when the body is returned, else the fatal message
HttpGetFatal(resp) ==
    IF ~resp.transport THEN "http: transport error"
    ELSE IF resp.status # StatusOK THEN "Got invalid HTTP status code"
    ELSE ""

\* parse_search_results, the checks before the loop
ParseFatal(resp) ==
    IF ~resp.json THEN "json: cannot parse"
    ELSE IF ~resp.hasHits THEN "JSON result looks incorrect"
    ELSE ""

\* A cursor that takes the sort value of every hit, also an absent one.
UpdateAfter_Always(after, hit) == hit.sort

\* A cursor that is never replaced.
UpdateAfter_Stale(after, hit) == after

\* parse_search_results, lines 205-208: the cursor after one hit
UpdateAfter(after, hit) == IF hit.sort # 0 THEN hit.sort ELSE after

\* parse_search_results, lines 210-216: the hit without its sort, marshalled
Record(hit) == hit.id

\* A loop that puts every hit in front of the ones before it.
RECURSIVE ParseHits_Prepend(_, _, _)
ParseHits_Prepend(hits, c, result) ==
    IF hits = <<>> THEN [ctx |-> c, result |-> result]
    ELSE ParseHits_Prepend(Tail(hits),
                   [c EXCEPT !.After = UpdateAfter(c.After, Head(hits)),
                             !.Counter = c.Counter + 1],
                   <<Record(Head(hits))>> \o result)

\* A loop that drops the hits that carry no sort annotation.
RECURSIVE ParseHits_SkipUnsorted(_, _, _)
ParseHits_SkipUnsorted(hits, c, result) ==
    IF hits = <<>> THEN [ctx |-> c, result |-> result]
    ELSE IF Head(hits).sort = 0
    THEN ParseHits_SkipUnsorted(Tail(hits), c, result)
    ELSE ParseHits_SkipUnsorted(Tail(hits),
                   [c EXCEPT !.After = UpdateAfter(c.After, Head(hits)),
                             !.Counter = c.Counter + 1],
                   Append(result, Record(Head(hits))))

\* parse_search_results, the loop over results
RECURSIVE ParseHits(_, _, _)
ParseHits(hits, c, result) ==
    IF hits = <<>> THEN [ctx |-> c, result |-> result]
    ELSE ParseHits(Tail(hits),
                   [c EXCEPT !.After = UpdateAfter(c.After, Head(hits)),
                             !.Counter = c.Counter + 1],
                   Append(result, Record(Head(hits))))

\* A parse that leaves the counter alone.
parse_search_results_NoCount(resp, c) ==
    LET p == ParseHits(resp.hits, c, <<>>)
    IN  [p EXCEPT !.ctx.Counter = c.Counter]

\* parse_search_results, lines 192-218
parse_search_results(resp, c) ==
    IF Len(resp.hits) = 0 THEN [ctx |-> c, result |-> <<>>]
    ELSE ParseHits(resp.hits, c, <<>>)

\* What a file left at the output path by an earlier run holds.
OldData == <<0, LF>>

Running == fatal = "none" /\ mpc # "done"

Die(msg) == fatal' = msg

\* ------------------------------------------------------------------- Init
\* The state main() starts in, for every index, window size, channel
\* capacity and compression setting within the bounds.  A service that
\* leaves sort annotations out is one that can also fail in the other ways;
\* it is explored with a disk that works.
Init ==
    /\ env \in { e \in [N : 0..MaxDocs, NoSort : SUBSET (1..MaxDocs),
                        faulty : BOOLEAN, diskFaulty : BOOLEAN,
                        fileExisted : BOOLEAN] :
                   /\ e.NoSort \subseteq 1..e.N
                   /\ (e.NoSort # {} => e.faulty /\ ~e.diskFaulty) }
    /\ config \in [Size : 1..MaxSize, Brotli : BOOLEAN]
    /\ capacity \in 1..MaxCap
    /\ ctx = [Size |-> config.Size, After |-> NoCursor, Counter |-> 0]
    /\ Tasks = <<>>
    /\ closed = 0
    /\ closedWith = <<>>
    /\ mpc = "count"
    /\ ppc = "idle"
    /\ r = <<>>
    /\ x = 0
    /\ clpc = "idle"
    /\ cpc = "idle"
    /\ data = 0
    /\ cdefer = <<>>
    /\ wg = [p |-> 0, c |-> 0]
    /\ sink = [created |-> FALSE, open |-> FALSE,
               fdata |-> IF env.fileExisted THEN OldData ELSE <<>>,
               wbuf |-> <<>>, cbuf |-> <<>>, werr |-> FALSE, log |-> <<>>]
    /\ fatal = "none"
    /\ requests = <<>>
    /\ enqueued = <<>>
    /\ dequeued = <<>>
    /\ count = -1
    /\ reported = -1

\* ------------------------------------------------------------------- main
\* A check that lets a count of zero through.
NothingToDump_Negative(c) == c < 0

\* main, line 302
NothingToDump(c) == c = 0

\* main, lines 299-304: query_count_database and the zero check
MainCount ==
    /\ Running /\ mpc = "count"
    /\ \E resp \in CountResponses :
        LET c == IF resp.hasCount THEN resp.count ELSE 0 IN
        /\ requests' = Append(requests, [uri |-> "_count", query |-> <<>>,
                                         resp |-> resp])
        /\ IF HttpGetFatal(resp) # "" THEN
               Die(HttpGetFatal(resp)) /\ UNCHANGED <<mpc, count>>
           ELSE IF ~resp.json THEN
               Die("json: cannot parse") /\ UNCHANGED <<mpc, count>>
           ELSE IF NothingToDump(c) THEN
               Die("Nothing to dump!") /\ count' = c /\ UNCHANGED mpc
           ELSE
               mpc' = "spawn" /\ count' = c /\ UNCHANGED fatal
    /\ UNCHANGED <<env, config, capacity, ctx, Tasks, closed, closedWith,
                   ppc, r, x, clpc, cpc, data, cdefer, wg, sink, enqueued,
                   dequeued, reported>>

\* main, lines 305-317: the three go statements
MainSpawn ==
    /\ Running /\ mpc = "spawn"
    /\ mpc' = "wait"
    /\ ppc' = "fetch"
    /\ clpc' = "wait"
    /\ cpc' = "open"
    /\ wg' = [p |-> 1, c |-> 1]
    /\ UNCHANGED <<env, config, capacity, ctx, Tasks, closed, closedWith, r,
                   x, data, cdefer, sink, fatal, requests, enqueued,
                   dequeued, count, reported>>

\* A main that prints the statistics without cwg.Wait().
MainReport_NoWait ==
    /\ Running /\ mpc = "wait"
    /\ reported' = ctx.Counter
    /\ mpc' = "done"
    /\ UNCHANGED <<env, config, capacity, ctx, Tasks, closed, closedWith,
                   ppc, r, x, clpc, cpc, data, cdefer, wg, sink, fatal,
                   requests, enqueued, dequeued, count>>

\* main, lines 318-322: cwg.Wait() and the statistics
MainReport ==
    /\ Running /\ mpc = "wait"
    /\ wg.c = 0
    /\ reported' = ctx.Counter
    /\ mpc' = "done"
    /\ UNCHANGED <<env, config, capacity, ctx, Tasks, closed, closedWith,
                   ppc, r, x, clpc, cpc, data, cdefer, wg, sink, fatal,
                   requests, enqueued, dequeued, count>>

\* --------------------------------------------------------------- producer
\* A producer that stops after every page, whatever it held.
ProducerBreak_AnyPage(res) == TRUE

\* A producer that also stops once it has counted the pre-flight count.
ProducerBreak_ByCount(res) == Len(res) = 0 \/ ctx.Counter >= count

\* producer, line 230
ProducerBreak(res) == Len(res) = 0

\* producer, lines 225-226 and 230-235: one page
ProducerFetch ==
    /\ Running /\ ppc = "fetch"
    /\ ctx.Counter < CounterCap
    /\ LET q == BuildQuery(ctx) IN
       \E resp \in SearchResponses(q) :
        /\ requests' = Append(requests, [uri |-> "_search", query |-> q,
                                         resp |-> resp])
        /\ IF HttpGetFatal(resp) # "" THEN
               Die(HttpGetFatal(resp)) /\ UNCHANGED <<ctx, r, x, ppc>>
           ELSE IF ParseFatal(resp) # "" THEN
               Die(ParseFatal(resp)) /\ UNCHANGED <<ctx, r, x, ppc>>
           ELSE
               LET p == parse_search_results(resp, ctx) IN
               /\ ctx' = p.ctx
               /\ r' = p.result
               /\ x' = 0
               /\ ppc' = IF Len(p.result) > 0 THEN "send"
                         ELSE IF ProducerBreak(p.result) THEN "return"
                         ELSE "fetch"
               /\ UNCHANGED fatal
    /\ UNCHANGED <<env, config, capacity, Tasks, closed, closedWith, mpc,
                   clpc, cpc, data, cdefer, wg, sink, enqueued, dequeued,
                   count, reported>>

\* A send that does not wait for room in the channel.
ProducerSend_NoBlock ==
    /\ Running /\ ppc = "send"
    /\ closed = 0
    /\ Tasks' = Append(Tasks, r[x + 1])
    /\ enqueued' = Append(enqueued, r[x + 1])
    /\ x' = x + 1
    /\ ppc' = IF x + 1 < Len(r) THEN "send"
              ELSE IF ProducerBreak(r) THEN "return"
              ELSE "fetch"
    /\ UNCHANGED <<env, config, capacity, ctx, closed, closedWith, mpc, r,
                   clpc, cpc, data, cdefer, wg, sink, fatal, requests,
                   dequeued, count, reported>>

\* producer, lines 227-229: *ctx.Tasks <- r[x]
ProducerSend ==
    /\ Running /\ ppc = "send"
    /\ IF closed > 0 THEN
           /\ Die("panic: send on closed channel")
           /\ UNCHANGED <<Tasks, enqueued, x, ppc>>
       ELSE
           /\ Len(Tasks) < capacity
           /\ Tasks' = Append(Tasks, r[x + 1])
           /\ enqueued' = Append(enqueued, r[x + 1])
           /\ x' = x + 1
           /\ ppc' = IF x + 1 < Len(r) THEN "send"
                     ELSE IF ProducerBreak(r) THEN "return"
                     ELSE "fetch"
           /\ UNCHANGED fatal
    /\ UNCHANGED <<env, config, capacity, ctx, closed, closedWith, mpc, r,
                   clpc, cpc, data, cdefer, wg, sink, requests, dequeued,
                   count, reported>>

\* A producer that returns without wg.Done().
ProducerReturn_NoDone ==
    /\ Running /\ ppc = "return"
    /\ ppc' = "done"
    /\ UNCHANGED <<env, config, capacity, ctx, Tasks, closed, closedWith,
                   mpc, r, x, clpc, cpc, data, cdefer, wg, sink, fatal,
                   requests, enqueued, dequeued, count, reported>>

\* producer, lines 223 and 237-241: the deferred wg.Done()
ProducerReturn ==
    /\ Running /\ ppc = "return"
    /\ wg' = [wg EXCEPT !.p = 0]
    /\ ppc' = "done"
    /\ UNCHANGED <<env, config, capacity, ctx, Tasks, closed, closedWith,
                   mpc, r, x, clpc, cpc, data, cdefer, sink, fatal, requests,
                   enqueued, dequeued, count, reported>>

\* ------------------------------------------------------ closing goroutine
\* A closing goroutine that does not wait for the producer.
CloserReady_NoWait == TRUE

\* main, line 310: pwg.Wait() returns
CloserReady == wg.p = 0

\* main, lines 309-313
Closer ==
    /\ Running /\ clpc = "wait"
    /\ CloserReady
    /\ IF closed > 0 THEN Die("panic: close of closed channel")
                          /\ UNCHANGED <<closed, closedWith>>
       ELSE closed' = closed + 1 /\ closedWith' = Tasks /\ UNCHANGED fatal
    /\ clpc' = "done"
    /\ UNCHANGED <<env, config, capacity, ctx, Tasks, mpc, ppc, r, x, cpc,
                   data, cdefer, wg, sink, requests, enqueued, dequeued,
                   count, reported>>

\* --------------------------------------------------------------- consumer
\* Whether a write to the file fails when one is attempted.
Fails == IF env.diskFaulty THEN BOOLEAN ELSE {FALSE}

\* An open without O_EXCL: an existing file is opened for writing.
OpenFatal_NoExcl(exists, fail) == IF fail THEN "open: cannot create" ELSE ""

\* consumer, line 249: OpenFile with O_CREATE|O_EXCL; "" when it succeeds
OpenFatal(exists, fail) ==
    IF exists THEN "open: file exists"
    ELSE IF fail THEN "open: cannot create"
    ELSE ""

\* w.Write(b), w the bufio.Writer on f (line 251): b is buffered; a full
\* buffer is written to the file first.  The writer keeps the first error:
\* after it every Write and Flush returns it and accepts nothing.
WWrite(s, b, fail) ==
    IF s.werr THEN s
    ELSE IF Len(s.wbuf) < MaxBuf THEN [s EXCEPT !.wbuf = Append(s.wbuf, b)]
    ELSE IF fail THEN [s EXCEPT !.werr = TRUE]
    ELSE [s EXCEPT !.fdata = s.fdata \o s.wbuf, !.wbuf = <<b>>]

RECURSIVE WWriteAll(_, _, _)
WWriteAll(s, bs, fail) ==
    IF bs = <<>> THEN s
    ELSE WWriteAll(WWrite(s, Head(bs), fail), Tail(bs), fail)

\* cout.Write(b), cout the brotli writer on w (lines 257-260): b is kept
\* for compression; a full block is compressed and written to w first.
CoutWrite(s, b, fail) ==
    IF s.werr THEN s
    ELSE IF Len(s.cbuf) < MaxBuf THEN [s EXCEPT !.cbuf = Append(s.cbuf, b)]
    ELSE LET t == WWriteAll(s, s.cbuf, fail) IN
         [t EXCEPT !.cbuf = IF t.werr THEN <<>> ELSE <<b>>]

\* out.Write(b), lines 255-273: out is cout when config.Brotli, else w
OutWrite(s, b, fail) ==
    IF config.Brotli THEN CoutWrite(s, b, fail) ELSE WWrite(s, b, fail)

\* consumer, lines 262-263
CoutFlush(s, fail) ==
    LET t == IF s.werr THEN s
             ELSE [WWriteAll(s, s.cbuf, fail) EXCEPT !.cbuf = <<>>]
    IN  [t EXCEPT !.log = Append(t.log, "cout.Flush")]

CoutClose(s) == [s EXCEPT !.log = Append(s.log, "cout.Close")]

\* consumer, lines 264 and 270
WFlush(s, fail) ==
    LET t == IF s.werr THEN s
             ELSE IF s.wbuf = <<>> THEN s
             ELSE IF fail THEN [s EXCEPT !.werr = TRUE]
             ELSE [s EXCEPT !.fdata = s.fdata \o s.wbuf, !.wbuf = <<>>]
    IN  [t EXCEPT !.log = Append(t.log, "w.Flush")]

\* consumer, lines 265 and 271
FClose(s) == [s EXCEPT !.open = FALSE, !.log = Append(s.log, "f.Close")]

\* A shutdown that closes the file before the writers above it are flushed.
SinkShutdown_FileFirst(s, fail) ==
    IF config.Brotli
    THEN CoutClose(CoutFlush(WFlush(FClose(s), fail), fail))
    ELSE WFlush(FClose(s), fail)

\* consumer, lines 261-266 and 269-272: the deferred shutdown
SinkShutdown(s, fail) ==
    IF config.Brotli
    THEN FClose(WFlush(CoutClose(CoutFlush(s, fail)), fail))
    ELSE FClose(WFlush(s, fail))

\* consumer, lines 245-273: defer wg.Done(), open the file, stack the writers
ConsumerOpen ==
    /\ Running /\ cpc = "open"
    /\ \E fail \in Fails :
        LET msg == OpenFatal(env.fileExisted, fail) IN
        IF msg # "" THEN
            /\ Die(msg)
            /\ cdefer' = <<"wg.Done">>
            /\ UNCHANGED <<sink, cpc>>
        ELSE
            /\ sink' = [sink EXCEPT !.created = TRUE, !.open = TRUE]
            /\ cdefer' = <<"shutdown", "wg.Done">>
            /\ cpc' = "range"
            /\ UNCHANGED fatal
    /\ UNCHANGED <<env, config, capacity, ctx, Tasks, closed, closedWith,
                   mpc, ppc, r, x, clpc, data, wg, requests, enqueued,
                   dequeued, count, reported>>

\* consumer, line 276: one receive of the range loop
ConsumerRecv ==
    /\ Running /\ cpc = "range"
    /\ IF Tasks # <<>> THEN
           /\ data' = Head(Tasks)
           /\ Tasks' = Tail(Tasks)
           /\ dequeued' = Append(dequeued, Head(Tasks))
           /\ cpc' = "write"
       ELSE
           /\ closed > 0
           /\ cpc' = "return"
           /\ UNCHANGED <<data, Tasks, dequeued>>
    /\ UNCHANGED <<env, config, capacity, ctx, closed, closedWith, mpc, ppc,
                   r, x, clpc, cdefer, wg, sink, fatal, requests, enqueued,
                   count, reported>>

\* consumer, lines 277-278: out.Write(data); out.Write(ln)
WriteRecord(s, d, fail) == OutWrite(OutWrite(s, d, fail), LF, fail)

ConsumerWrite ==
    /\ Running /\ cpc = "write"
    /\ \E fail \in Fails : sink' = WriteRecord(sink, data, fail)
    /\ cpc' = "range"
    /\ UNCHANGED <<env, config, capacity, ctx, Tasks, closed, closedWith,
                   mpc, ppc, r, x, clpc, data, cdefer, wg, fatal, requests,
                   enqueued, dequeued, count, reported>>

\* consumer, lines 245 and 261-272: the deferred calls, last deferred first
ConsumerDefer ==
    /\ Running /\ cpc = "return"
    /\ cdefer # <<>>
    /\ cdefer' = Tail(cdefer)
    /\ cpc' = IF Tail(cdefer) = <<>> THEN "done" ELSE "return"
    /\ IF Head(cdefer) = "wg.Done" THEN
           /\ wg' = [wg EXCEPT !.c = 0]
           /\ UNCHANGED sink
       ELSE
           /\ \E fail \in Fails : sink' = SinkShutdown(sink, fail)
           /\ UNCHANGED wg
    /\ UNCHANGED <<env, config, capacity, ctx, Tasks, closed, closedWith,
                   mpc, ppc, r, x, clpc, data, fatal, requests, enqueued,
                   dequeued, count, reported>>

Next ==
    \/ MainCount
    \/ MainSpawn
    \/ MainReport
    \/ ProducerFetch
    \/ ProducerSend
    \/ ProducerReturn
    \/ Closer
    \/ ConsumerOpen
    \/ ConsumerRecv
    \/ ConsumerWrite
    \/ ConsumerDefer

Spec == Init /\ [][Next]_vars

\* The goroutines.  The Go scheduler runs every goroutine that can take a
\* step, so each of them is weakly fair.
Main == MainCount \/ MainSpawn \/ MainReport

Producer == ProducerFetch \/ ProducerSend \/ ProducerReturn

Consumer == ConsumerOpen \/ ConsumerRecv \/ ConsumerWrite \/ ConsumerDefer

FairSpec ==
    /\ Init /\ [][Next]_vars
    /\ WF_vars(Main) /\ WF_vars(Producer) /\ WF_vars(Closer)
    /\ WF_vars(Consumer)

\* ------------------------------------------------------------- properties
IsPrefix(s, t) == Len(s) <= Len(t) /\ s = SubSeq(t, 1, Len(s))

Ceil(n, w) == (n + w - 1) \div w

IsSearch(q) == q.uri = "_search"

SearchRequests == SelectSeq(requests, IsSearch)

\* a response the producer takes for a page of results
IsPage(resp) == HttpGetFatal(resp) = "" /\ ParseFatal(resp) = ""

ProducerStopped == ppc \in {"return", "done"}

\* The service is the one the pagination protocol expects: every hit
\* carries its sort annotation.  (A response that is no page at all ends
\* the process, so a producer that goes on has seen only pages.)
ServiceSorts == env.NoSort = {}

\* C1: with a service that returns the next at most W documents after the
\* cursor, the producer sends ceil(N/W) requests that return hits and then
\* exactly one that returns no hit, and stops; it enqueues the N documents
\* of the index, each once, and never anything else on the way.
C1_PagesAndRecords ==
    (ServiceSorts /\ env.N >= 1) =>
        LET S == SearchRequests
            W == config.Size
        IN  /\ IsPrefix(enqueued, Index)
            /\ Len(S) <= Ceil(env.N, W) + 1
            /\ \A i \in 1..Len(S) :
                   IsPage(S[i].resp) =>
                       IF i <= Ceil(env.N, W)
                       THEN Len(S[i].resp.hits) \in 1..W
                       ELSE S[i].resp.hits = <<>>
            /\ ProducerStopped =>
                   /\ Len(S) = Ceil(env.N, W) + 1
                   /\ S[Len(S)].resp.hits = <<>>
                   /\ enqueued = Index
                   /\ Cardinality({enqueued[i] : i \in 1..Len(enqueued)})
                          = env.N

C1_Witness ==
    /\ ServiceSorts /\ env.N = 3 /\ config.Size = 2
    /\ ppc = "done"
    /\ Len(SearchRequests) = 3
    /\ Len(enqueued) = 3

\* The bytes the consumer has handed to out that out has accepted, oldest
\* first: those in the file, then those buffered by w, then those held by
\* the compressor.
Accepted ==
    IF sink.created THEN sink.fdata \o sink.wbuf \o sink.cbuf ELSE <<>>

IsRecordByte(b) == b # LF

Written == SelectSeq(Accepted, IsRecordByte)

ReceivedAndWritten ==
    IF cpc = "write" THEN SubSeq(dequeued, 1, Len(dequeued) - 1) ELSE dequeued

\* C2: whatever the interleaving and the capacity of the channel, the
\* records are written in the order they were received, received in the
\* order they were sent, and sent in index order; a run that reports without
\* a failed write has written the whole index, in order, to the file.
C2_OutputOrder ==
    /\ dequeued \o Tasks = enqueued
    /\ IsPrefix(Written, dequeued)
    /\ ~sink.werr /\ sink.created => Written = ReceivedAndWritten
    /\ ServiceSorts => IsPrefix(enqueued, Index)
    /\ (reported # -1 /\ ServiceSorts /\ ~sink.werr)
          => SelectSeq(sink.fdata, IsRecordByte) = Index

C2_Witness ==
    /\ reported # -1 /\ ServiceSorts /\ ~sink.werr
    /\ env.N = 3 /\ capacity = 1 /\ config.Size = 2
    /\ SelectSeq(sink.fdata, IsRecordByte) = <<1, 2, 3>>

\* The run has started its goroutines, the service answers every request
\* with a page, and the output file can be (or has been) created.
Started ==
    /\ mpc = "wait"
    /\ ~env.faulty
    /\ sink.created \/ (~env.fileExisted /\ ~env.diskFaulty)

Finished ==
    /\ ppc = "done" /\ wg.p = 0
    /\ closed = 1
    /\ cpc = "done" /\ wg.c = 0 /\ Tasks = <<>>
    /\ mpc = "done" /\ reported # -1
    /\ fatal = "none"

\* C3: under fair scheduling, with a finite index and a service that
\* answers every request with a page, the producer terminates, the channel
\* is closed, the consumer sees the closed and drained channel and
\* terminates, and main reaches its final report.
C3_Terminates == Started ~> Finished

C3_Witness ==
    /\ Finished /\ ~env.faulty
    /\ env.N = 3 /\ capacity = 1 /\ config.Size = 2

\* C4: the channel is closed once, after the producer has finished; nothing
\* is sent on the closed channel; what the channel holds when it is closed
\* is still received before the consumer leaves its loop.
C4_CloseAfterProducer ==
    /\ [](/\ closed <= 1
          /\ closed = 1 => ppc = "done" /\ x = Len(r)
          /\ fatal \notin {"panic: send on closed channel",
                           "panic: close of closed channel"}
          /\ (Running /\ cpc = "range" /\ Tasks # <<>>)
                => ENABLED ConsumerRecv
          /\ cpc \in {"return", "done"}
                => closed = 1 /\ Tasks = <<>> /\ dequeued = enqueued)
    /\ [][closed = 1 => enqueued' = enqueued /\ closed' = 1]_vars

C4_Witness ==
    /\ cpc = "done" /\ closed = 1
    /\ Len(closedWith) = 2
    /\ dequeued = enqueued

Lines(recs) ==
    [i \in 1..(2 * Len(recs)) |->
        IF i % 2 = 1 THEN recs[(i + 1) \div 2] ELSE LF]

\* C5: every record sent to the channel is in the output once, followed by
\* one line feed, when the consumer has terminated; the consumer terminates
\* only when the channel is closed and empty.
C5_EveryRecordWritten ==
    /\ cpc \in {"return", "done"} => closed = 1 /\ Tasks = <<>>
    /\ cpc = "done" => sink.fdata = Lines(enqueued)

InitialFile == IF env.fileExisted THEN OldData ELSE <<>>

\* C6: a count of zero ends the run with "Nothing to dump!" before any
\* search request, before the goroutines are started and without creating
\* the output file.
C6_ZeroCountAborts ==
    /\ count = 0 => fatal = "Nothing to dump!"
    /\ fatal = "Nothing to dump!" =>
          /\ count = 0
          /\ SearchRequests = <<>>
          /\ mpc = "count" /\ ppc = "idle" /\ clpc = "idle" /\ cpc = "idle"
          /\ wg = [p |-> 0, c |-> 0]
          /\ ~sink.created /\ sink.fdata = InitialFile

C6_Witness == fatal = "Nothing to dump!" /\ count = 0 /\ env.N > 0

\* C7: with a file already at the output path the consumer's open ends the
\* process with a resource error; the run never reports, and the file holds
\* what it held, in every state.
C7_ExistingFileKept ==
    /\ [](env.fileExisted =>
             /\ sink.fdata = OldData /\ ~sink.created /\ ~sink.open
             /\ sink.wbuf = <<>> /\ sink.cbuf = <<>>
             /\ cpc \in {"idle", "open"} /\ dequeued = <<>>
             /\ cdefer # <<>> => fatal = "open: file exists"
             /\ mpc # "done" /\ reported = -1)
    /\ (env.fileExisted /\ mpc = "wait" /\ ~env.faulty)
          ~> (fatal = "open: file exists")

C7_Witness ==
    /\ env.fileExisted /\ fatal = "open: file exists"
    /\ enqueued # <<>> /\ sink.fdata = OldData

\* a request answered with a non-success status, or a search answered
\* without the "hits" field
BadAnswer(q) ==
    \/ q.resp.transport /\ q.resp.status # StatusOK
    \/ IsSearch(q) /\ IsPage([q.resp EXCEPT !.hasHits = TRUE])
                   /\ ~q.resp.hasHits

\* C8: a non-success status or a response without "hits" ends the process:
\* the request is the last one sent, nothing is enqueued afterwards and the
\* final report is never made.
C8_BadPageAborts ==
    /\ [](\A i \in 1..Len(requests) :
            BadAnswer(requests[i]) =>
                /\ i = Len(requests)
                /\ fatal \in {"Got invalid HTTP status code",
                              "JSON result looks incorrect"}
                /\ mpc # "done" /\ reported = -1)
    /\ [][fatal # "none" =>
            /\ fatal' = fatal
            /\ requests' = requests
            /\ enqueued' = enqueued
            /\ reported' = reported]_vars

C8_Witness ==
    /\ Len(SearchRequests) >= 2
    /\ BadAnswer(requests[Len(requests)])
    /\ Tasks # <<>>
    /\ fatal # "none"

\* C9: once a write to the output has failed the process is dead, and it
\* has not made the final report.
C9_WriteFailureFatal == sink.werr => (fatal # "none" /\ reported = -1)

\* C10, as claimed: the counter is the number of records enqueued so far.
C10_CounterIsEnqueued == ctx.Counter = Len(enqueued)

\* C10, amended: the counter never decreases and is the number of records
\* parsed from the pages received so far, that is the records enqueued plus
\* the records of the current page still to be enqueued; it is the number
\* enqueued whenever the producer is not in the middle of a page.
C10_CounterIsParsed ==
    /\ [](/\ ctx.Counter = Len(enqueued) + (Len(r) - x)
          /\ ppc # "send" => ctx.Counter = Len(enqueued)
          /\ reported # -1 => reported = Len(enqueued))
    /\ [][ctx.Counter' >= ctx.Counter]_vars

C10_Witness ==
    /\ ppc = "send" /\ x = 0 /\ Len(r) = 2
    /\ enqueued # <<>>
    /\ ctx.Counter = Len(enqueued) + 2

\* C11: main makes its report, and reads the counter, only when the
\* producer and the consumer have both terminated; the cursor and the
\* counter are written by the producer alone, so nothing writes them once
\* the report is possible.
C11_ReportAfterBoth ==
    /\ [](/\ reported # -1 =>
                /\ ppc = "done" /\ wg.p = 0
                /\ cpc = "done" /\ wg.c = 0
                /\ reported = ctx.Counter
          /\ (mpc = "wait" /\ wg.c = 0) => ppc = "done" /\ x = Len(r))
    /\ [][ctx' # ctx => ppc = "fetch" /\ ppc' \in {"send", "return"}
                          /\ reported = -1 /\ wg.c = 1]_vars

C11_Witness ==
    /\ reported = 3 /\ mpc = "done"
    /\ ppc = "done" /\ cpc = "done"
    /\ capacity = 1

ShutdownSteps ==
    IF config.Brotli THEN <<"cout.Flush", "cout.Close", "w.Flush", "f.Close">>
    ELSE <<"w.Flush", "f.Close">>

\* C12: at the end of the stream the consumer flushes and closes the
\* compressor (when there is one), then flushes the buffered writer, then
\* closes the file, so that nothing stays in a buffer; no record is written
\* after any of these steps.
C12_ShutdownOrder ==
    /\ [](/\ sink.log \in {<<>>, ShutdownSteps}
          /\ sink.log # <<>> =>
                /\ cpc \in {"return", "done"} /\ Tasks = <<>> /\ closed = 1
                /\ ~sink.open
                /\ ~sink.werr => /\ sink.wbuf = <<>> /\ sink.cbuf = <<>>
                                 /\ sink.fdata = Lines(dequeued)
          /\ cpc = "done" => sink.log = ShutdownSteps)
    /\ [][sink.log # <<>> => sink' = sink]_vars

C12_Witness ==
    /\ config.Brotli /\ cpc = "done"
    /\ sink.log = <<"cout.Flush", "cout.Close", "w.Flush", "f.Close">>
    /\ Len(sink.fdata) = 6

\* C13: whenever the process has ended, by the return of main or by a fatal
\* error anywhere, a sink that was opened has been shut down.
C13_ShutdownOnEveryExit ==
    (~Running /\ sink.created) => (sink.log = ShutdownSteps /\ ~sink.open)

\* C14: the cursor starts absent, only the producer's page step changes
\* it, and it is never set back to absent nor moved backwards.
C14_CursorMonotone ==
    /\ [](/\ ppc = "idle" => ctx.After = NoCursor
          /\ ctx.After \in {NoCursor} \cup (1..env.N))
    /\ [][/\ ctx'.After >= ctx.After
          /\ ctx.After # NoCursor => ctx'.After # NoCursor
          /\ ctx'.After # ctx.After =>
                /\ ppc = "fetch" /\ ppc' = "send"
                /\ UNCHANGED <<mpc, cpc, clpc>>]_vars

C14_Witness ==
    /\ env.NoSort # {} /\ ctx.After = 2
    /\ Len(requests) >= 3
    /\ requests[Len(requests)].resp.hits = <<[id |-> 3, sort |-> 0]>>

\* the hits of the pages received so far, in the order they were processed
RECURSIVE HitsOf(_)
HitsOf(S) ==
    IF S = <<>> THEN <<>>
    ELSE IF IsPage(S[1].resp) THEN S[1].resp.hits \o HitsOf(Tail(S))
    ELSE HitsOf(Tail(S))

\* the sort value of the last hit of hs that carries one (NoCursor: none)
RECURSIVE LastSort(_)
LastSort(hs) ==
    IF hs = <<>> THEN NoCursor
    ELSE IF hs[Len(hs)].sort # 0 THEN hs[Len(hs)].sort
    ELSE LastSort(SubSeq(hs, 1, Len(hs) - 1))

\* C15, as claimed: the first request has no search_after, every later
\* request has one, its value the sort value of the last annotated hit
\* processed so far; every request has the window size and the _id sort.
C15_EveryLaterRequestHasCursor ==
    LET S == SearchRequests IN
    \A i \in 1..Len(S) :
        /\ S[i].query.size = config.Size
        /\ S[i].query.sort = "_id asc"
        /\ i = 1 => S[i].query.search_after = <<>>
        /\ i > 1 => /\ S[i].query.search_after # <<>>
                    /\ S[i].query.search_after
                          = <<LastSort(HitsOf(SubSeq(S, 1, i - 1)))>>

\* C15, amended: the first request has no search_after; a later request
\* has one exactly when a hit with a sort annotation has been processed,
\* and then its value is the sort value of the last such hit; every request
\* has the window size and the _id sort.
C15_RequestCarriesCursor ==
    LET S == SearchRequests IN
    \A i \in 1..Len(S) :
        LET last == LastSort(HitsOf(SubSeq(S, 1, i - 1))) IN
        /\ S[i].query.size = config.Size
        /\ S[i].query.sort = "_id asc"
        /\ i = 1 => S[i].query.search_after = <<>>
        /\ S[i].query.search_after =
              IF last = NoCursor THEN <<>> ELSE <<last>>
        /\ ServiceSorts /\ i > 1 => S[i].query.search_after # <<>>

C15_Witness ==
    /\ Len(SearchRequests) = 3
    /\ SearchRequests[1].query.search_after = <<>>
    /\ SearchRequests[2].query.search_after = <<2>>
    /\ SearchRequests[3].query.search_after = <<3>>

Ids(hs) == [i \in 1..Len(hs) |-> hs[i].id]

\* C16: a hit without a sort annotation leaves the cursor where it was and
\* is counted and enqueued like any other: the cursor is the sort value of
\* the last annotated hit, the counter the number of all hits, and the
\* records sent or waiting to be sent are all the hits.
C16_UnsortedHitKept ==
    LET hs == HitsOf(SearchRequests) IN
    /\ ctx.After = LastSort(hs)
    /\ ctx.Counter = Len(hs)
    /\ enqueued \o SubSeq(r, x + 1, Len(r)) = Ids(hs)

C16_Witness ==
    LET hs == HitsOf(SearchRequests) IN
    /\ Len(hs) = 2 /\ hs[1].sort = 1 /\ hs[2].sort = 0
    /\ ctx.After = 1 /\ ctx.Counter = 2
    /\ enqueued = <<1, 2>>

LastSearch == SearchRequests[Len(SearchRequests)]

\* C17: the producer stops exactly when a page has no hits, and enqueues
\* nothing for that page; the pre-flight count plays no part: whatever
\* non-zero count was reported, a producer that has stopped has enqueued
\* the whole index.
C17_StopsOnEmptyPage ==
    /\ ProducerStopped <=>
          /\ SearchRequests # <<>>
          /\ IsPage(LastSearch.resp)
          /\ LastSearch.resp.hits = <<>>
    /\ ProducerStopped =>
          /\ r = <<>> /\ x = 0
          /\ count > 0
          /\ enqueued = Ids(HitsOf(SearchRequests))
          /\ ServiceSorts => enqueued = Index
    /\ (ppc \in {"fetch", "send"} /\ ServiceSorts)
          => IsPrefix(enqueued, Index)

C17_Witness ==
    /\ ProducerStopped /\ ServiceSorts
    /\ env.N = 3 /\ count = 2
    /\ enqueued = <<1, 2, 3>>

\* The producer can take no step.
ProducerBlocked == ~ENABLED (ProducerFetch \/ ProducerSend \/ ProducerReturn)

\* C18: the channel never holds more than its capacity; while it is full a
\* producer with a record to send is blocked, sending no record and no
\* request, until the consumer has received one.
C18_Backpressure ==
    /\ [](/\ Len(Tasks) <= capacity
          /\ capacity \in 1..MaxCap
          /\ (Running /\ ppc = "send" /\ Len(Tasks) = capacity)
                => ProducerBlocked)
    /\ [][(ppc = "send" /\ Len(Tasks) = capacity)
            => /\ requests' = requests /\ enqueued' = enqueued
               /\ capacity' = capacity
               /\ Len(Tasks') < capacity => dequeued' # dequeued]_vars

C18_Witness ==
    /\ Running /\ ppc = "send" /\ capacity = 2 /\ Len(Tasks) = 2
    /\ x < Len(r)
    /\ cpc = "write"

\* C19: when main makes its report the sink has been flushed and closed,
\* and the file holds as many records as the report says.
C19_ReportAfterShutdown ==
    reported # -1 =>
        /\ sink.log = ShutdownSteps /\ ~sink.open
        /\ sink.wbuf = <<>> /\ sink.cbuf = <<>>
        /\ Len(SelectSeq(sink.fdata, IsRecordByte)) = reported

Cursor(q) == IF q.search_after = <<>> THEN NoCursor ELSE q.search_after[1]

NoDuplicates(s) == \A i, j \in 1..Len(s) : s[i] = s[j] => i = j

\* C20, as claimed: no two page requests carry the same cursor and no
\* document is enqueued twice, whatever the service answers.
C20_NoRepeatedCursor ==
    /\ \A i, j \in 1..Len(SearchRequests) :
          Cursor(SearchRequests[i].query) = Cursor(SearchRequests[j].query)
              => i = j
    /\ NoDuplicates(enqueued)

\* C20, amended: a page with at least one annotated hit moves the cursor
\* strictly forward before the next request, a non-empty page with none
\* leaves it where it was, and the next request repeats the last one; when
\* every hit is annotated no two requests carry the same cursor, no
\* document is enqueued twice and the producer terminates.
C20_CursorAdvances ==
    /\ [](LET S == SearchRequests IN
          /\ \A i \in 1..(Len(S) - 1) :
                LET last == LastSort(S[i].resp.hits) IN
                /\ IsPage(S[i].resp) /\ S[i].resp.hits # <<>>
                /\ last # NoCursor
                      => /\ Cursor(S[i + 1].query) = last
                         /\ Cursor(S[i + 1].query) > Cursor(S[i].query)
                /\ last = NoCursor => S[i + 1].query = S[i].query
          /\ ServiceSorts =>
                /\ \A i, j \in 1..Len(S) :
                      Cursor(S[i].query) = Cursor(S[j].query) => i = j
                /\ NoDuplicates(enqueued))
    /\ Started ~> (ppc = "done")

C20_Witness ==
    /\ ServiceSorts /\ ppc = "done" /\ env.N = 3 /\ config.Size = 1
    /\ Len(SearchRequests) = 4
    /\ Cursor(LastSearch.query) = 3
====
